---- MODULE Spec2Model ----
(***************************************************************************)
(* Model of libxnd/bitmaps.c: the validity-bitmap tree of an xnd           *)
(* container.  bitmap_init and xnd_bitmap_clear are modelled as a          *)
(* small-step machine over an explicit call stack and heap, so that an     *)
(* allocation can fail at any point of the recursion and every free is     *)
(* counted.  xnd_set_valid, xnd_is_valid and xnd_is_na work on the bytes   *)
(* of the leaf buffers.                                                    *)
(***************************************************************************)
EXTENDS Integers, Sequences, FiniteSets, TLC

VARIABLES
    typ,     \* the container's type (const ndt_t *), fixed at construction
    root,    \* the container's embedded xnd_bitmap_t {data, size, next}
    bufs,    \* heap: every buffer bits_new ever returned
    arrs,    \* heap: every node array bitmap_array_new ever returned
    stack,   \* call stack of bitmap_init / xnd_bitmap_clear frames
    ret,     \* return value of the call that returned last
    ctx,     \* ndt_context_t: "Success" or "MemoryError"
    phase,   \* the container: "new", "built", "failed" or "cleared"
    nsets,   \* number of xnd_set_valid calls made so far
    last     \* the operation that completed in the last step

vars == <<typ, root, bufs, arrs, stack, ret, ctx, phase, nsets, last>>

----------------------------------------------------------------------------
(* Bounds of the model *)

MaxShape == 3
MaxFields == 2
MaxSets == 2

----------------------------------------------------------------------------
(* Type descriptors (ndt_t), read-only inputs of this file.                *)
(* Fields: tag, opt (NDT_OPTION), sub (NDT_SUBTREE_OPTION), ndim, shape,   *)
(* offsets (Concrete.VarDim.offsets), types (element type or field types). *)

NULL == 0

\* true when something strictly beneath carries an option flag
SubBelow(ts) == \E i \in 1..Len(ts) : ts[i].opt \/ ts[i].sub

\* a scalar dtype; an optional scalar's own subtree flag is the
\* descriptor's choice, the code reads the two flags separately
ScalarT(opt, sub) ==
    [tag |-> "Int64", opt |-> opt, sub |-> sub, ndim |-> 0,
     shape |-> 0, offsets |-> <<>>, types |-> <<>>]

FixedDimT(shape, e) ==
    [tag |-> "FixedDim", opt |-> FALSE, sub |-> SubBelow(<<e>>),
     ndim |-> e.ndim + 1, shape |-> shape, offsets |-> <<>>,
     types |-> <<e>>]

VarDimT(offsets, e) ==
    [tag |-> "VarDim", opt |-> FALSE, sub |-> SubBelow(<<e>>),
     ndim |-> e.ndim + 1, shape |-> 0, offsets |-> offsets,
     types |-> <<e>>]

\* tag is "Tuple" or "Record"; shape is the number of fields
ProductT(tag, opt, selfsub, fields) ==
    [tag |-> tag, opt |-> opt,
     sub |-> SubBelow(fields) \/ (opt /\ selfsub),
     ndim |-> 0, shape |-> Len(fields), offsets |-> <<>>,
     types |-> fields]

NoType == ScalarT(FALSE, FALSE)

Scalars == {ScalarT(FALSE, FALSE), ScalarT(TRUE, FALSE), ScalarT(TRUE, TRUE)}

Shapes == 2..MaxShape

OffsetSeqs == {<<0, 2>>, <<0, 2, 5>>, <<0, 4, 9>>}

Dims(X) ==
    {FixedDimT(s, e) : s \in Shapes, e \in X}
      \cup {VarDimT(o, e) : o \in OffsetSeqs, e \in X}

SmallDims(X) ==
    {FixedDimT(2, e) : e \in X} \cup {VarDimT(<<0, 2>>, e) : e \in X}

FieldSeqs(X) == UNION {[1..n -> X] : n \in 1..MaxFields}

Products(X) ==
    {ProductT(tag, opt, ss, fs) :
        tag \in {"Tuple", "Record"}, opt \in BOOLEAN, ss \in BOOLEAN,
        fs \in FieldSeqs(X)}

\* field types of the nested products
InnerTypes ==
    {ScalarT(FALSE, FALSE), ScalarT(TRUE, FALSE),
     ProductT("Tuple", FALSE, FALSE, <<ScalarT(TRUE, FALSE)>>),
     ProductT("Record", TRUE, FALSE,
              <<ScalarT(TRUE, FALSE), ScalarT(FALSE, FALSE)>>),
     FixedDimT(3, ScalarT(TRUE, FALSE))}

Types ==
    Scalars \cup Dims(Scalars) \cup Dims(Dims(Scalars))
      \cup Products(Scalars) \cup SmallDims(Products(Scalars))
      \cup Products(InnerTypes)

ndt_is_optional(t) == t.opt

ndt_subtree_is_optional(t) == t.sub

\* the dtype of t: t with all of its dimensions stripped
RECURSIVE ndt_dtype(_)
ndt_dtype(t) == IF t.ndim = 0 THEN t ELSE ndt_dtype(t.types[1])

----------------------------------------------------------------------------
(* Heap and nodes *)

EmptyNode == [data |-> NULL, size |-> 0, next |-> NULL]

RootAddr == <<0, 1>>

\* the xnd_bitmap_t at an address: the root, or entry addr[2] of an array
Node(addr) ==
    IF addr[1] = 0 THEN root ELSE arrs[addr[1]].nodes[addr[2]]

bitmap_size(nelem) == (nelem + 7) \div 8

\* a fresh zero-filled buffer for n elements (calloc)
NewBuf(n) ==
    [bytes |-> [j \in 1..bitmap_size(n) |-> 0], n |-> n, freed |-> 0]

\* a fresh zero-filled array of n nodes (calloc)
NewArr(n) == [nodes |-> [j \in 1..n |-> EmptyNode], freed |-> 0]

\* ndt_free(p) on a buffer: free(NULL) does nothing
FreeBuf(h, p) ==
    IF p = NULL THEN h ELSE [h EXCEPT ![p].freed = @ + 1]

FreeArr(h, p) ==
    IF p = NULL THEN h ELSE [h EXCEPT ![p].freed = @ + 1]

NAllocs == Len(bufs) + Len(arrs)

----------------------------------------------------------------------------
(* Call stack *)

Frame(fn, b, t, nitems, pc) ==
    [fn |-> fn, b |-> b, t |-> t, nitems |-> nitems, pc |-> pc,
     i |-> 0, k |-> 0, a0 |-> NAllocs]

Top == stack[Len(stack)]

Pop == SubSeq(stack, 1, Len(stack) - 1)

\* the running frame moves to pc
Goto(pc) == [stack EXCEPT ![Len(stack)].pc = pc]

\* the running frame moves to pc and calls fr
Call(pc, fr) == Append(Goto(pc), fr)

Running(fn, pc) ==
    /\ stack # <<>>
    /\ Top.fn = fn
    /\ Top.pc = pc

Step == [op |-> "step", b |-> RootAddr, t |-> NoType, nitems |-> 0,
         ret |-> 0, nalloc |-> 0, depth |-> 0, idx |-> 0]

\* writes node n at addr
WriteNode(addr, n) ==
    /\ root' = IF addr[1] = 0 THEN n ELSE root
    /\ arrs' = IF addr[1] = 0 THEN arrs
               ELSE [arrs EXCEPT ![addr[1]].nodes[addr[2]] = n]

\* the running bitmap_init frame returns v
InitReturn(v) ==
    /\ stack' = Pop
    /\ ret' = v
    /\ last' = [op |-> "init_ret", b |-> Top.b, t |-> Top.t,
                nitems |-> Top.nitems, ret |-> v,
                nalloc |-> NAllocs - Top.a0, depth |-> Len(stack) - 1,
                idx |-> 0]
    /\ phase' = IF Len(stack) = 1
                THEN (IF v = 0 THEN "built" ELSE "failed")
                ELSE phase

\* the running xnd_bitmap_clear frame returns
ClearReturn ==
    /\ stack' = Pop
    /\ last' = [Step EXCEPT !.op = "clear_ret", !.b = Top.b,
                            !.depth = Len(stack) - 1]

----------------------------------------------------------------------------
(* bitmap_init, lines 74-164 *)

IsProduct(t) == t.tag \in {"Tuple", "Record"}

\* variant: only scalars get a bit buffer
IsLeafTypeScalarOnly(t) ==
    t.ndim = 0 /\ ndt_is_optional(t) /\ ~IsProduct(t)

\* line 87: the node gets its own bit buffer
IsLeafType(t) == t.ndim = 0 /\ ndt_is_optional(t)

\* variant: the subtree flag is not consulted
SkipNever(t) == FALSE

\* line 94: nothing beneath is optional, the node needs nothing more
SkipSubtree(t) == ~ndt_subtree_is_optional(t)

\* variant: the field offset k is dropped
ChildIndexNoField(i, shape, k) == i * shape + 1

\* lines 126, 150: next = b->next + i*shape + k (1-based here)
ChildIndex(i, shape, k) == i * shape + k + 1

\* variant: the incoming repetition count is dropped
FixedDimItemsShapeOnly(nitems, shape) == shape

\* line 101: nitems * shape
FixedDimItems(nitems, shape) == nitems * shape

\* lines 82-85: the entry assertions
EntryAsserts(b) ==
    /\ Node(b).data = NULL
    /\ Node(b).size = 0
    /\ Node(b).next = NULL

\* lines 87-88, 53: bits_new succeeds
InitLeafAlloc ==
    /\ Running("init", "entry")
    /\ EntryAsserts(Top.b)
    /\ IsLeafType(Top.t)
    /\ bufs' = Append(bufs, NewBuf(Top.nitems))
    /\ WriteNode(Top.b, [Node(Top.b) EXCEPT !.data = Len(bufs) + 1])
    /\ stack' = Goto("check")
    /\ last' = Step
    /\ UNCHANGED <<typ, ret, ctx, phase, nsets>>

\* lines 87-91, 54-56: bits_new fails, ndt_memory_error sets the context
InitLeafOom ==
    /\ Running("init", "entry")
    /\ EntryAsserts(Top.b)
    /\ IsLeafType(Top.t)
    /\ ctx' = "MemoryError"
    /\ InitReturn(-1)
    /\ UNCHANGED <<typ, root, bufs, arrs, nsets>>

\* line 87: no buffer for this type
InitNoLeaf ==
    /\ Running("init", "entry")
    /\ EntryAsserts(Top.b)
    /\ ~IsLeafType(Top.t)
    /\ stack' = Goto("check")
    /\ last' = Step
    /\ UNCHANGED <<typ, root, bufs, arrs, ret, ctx, phase, nsets>>

\* lines 94-96
InitSkip ==
    /\ Running("init", "check")
    /\ SkipSubtree(Top.t)
    /\ InitReturn(0)
    /\ UNCHANGED <<typ, root, bufs, arrs, ctx, nsets>>

\* lines 99-102: same node, nitems * shape
InitFixedDim ==
    /\ Running("init", "check")
    /\ ~SkipSubtree(Top.t)
    /\ Top.t.tag = "FixedDim"
    /\ stack' = Call("tail", Frame("init", Top.b, Top.t.types[1],
                                   FixedDimItems(Top.nitems, Top.t.shape),
                                   "entry"))
    /\ last' = Step
    /\ UNCHANGED <<typ, root, bufs, arrs, ret, ctx, phase, nsets>>

\* the type the VarDim case recurses into, line 107
VarDimElem(t) == ndt_dtype(t)

\* lines 104-111: same node, n = offsets[noffsets-1]
InitVarDim ==
    /\ Running("init", "check")
    /\ ~SkipSubtree(Top.t)
    /\ Top.t.tag = "VarDim"
    /\ LET noffsets == Len(Top.t.offsets)
           n == Top.t.offsets[noffsets]
       IN stack' = Call("tail", Frame("init", Top.b, VarDimElem(Top.t),
                                      n, "entry"))
    /\ last' = Step
    /\ UNCHANGED <<typ, root, bufs, arrs, ret, ctx, phase, nsets>>

\* lines 101, 110: return bitmap_init(...)
InitTailReturn ==
    /\ Running("init", "tail")
    /\ InitReturn(ret)
    /\ UNCHANGED <<typ, root, bufs, arrs, ctx, nsets>>

\* lines 161-163
InitDefault ==
    /\ Running("init", "check")
    /\ ~SkipSubtree(Top.t)
    /\ ~IsProduct(Top.t)
    /\ Top.t.tag \notin {"FixedDim", "VarDim"}
    /\ InitReturn(0)
    /\ UNCHANGED <<typ, root, bufs, arrs, ctx, nsets>>

\* lines 114-122 (Tuple), 138-146 (Record): the child array is allocated
InitArrayAlloc ==
    /\ Running("init", "check")
    /\ ~SkipSubtree(Top.t)
    /\ IsProduct(Top.t)
    /\ LET n == Top.nitems * Top.t.shape
           a == Len(arrs) + 1
           grown == Append(arrs, NewArr(n))
           node == [Node(Top.b) EXCEPT !.next = a, !.size = n]
       IN /\ root' = IF Top.b[1] = 0 THEN node ELSE root
          /\ arrs' = IF Top.b[1] = 0 THEN grown
                     ELSE [grown EXCEPT ![Top.b[1]].nodes[Top.b[2]] = node]
    /\ stack' = Goto("loop")
    /\ last' = Step
    /\ UNCHANGED <<typ, bufs, ret, ctx, phase, nsets>>

\* lines 117-120, 141-144: bitmap_array_new fails, the node is cleared
InitArrayOom ==
    /\ Running("init", "check")
    /\ ~SkipSubtree(Top.t)
    /\ IsProduct(Top.t)
    /\ ctx' = "MemoryError"
    /\ stack' = Call("fail", Frame("clear", Top.b, NoType, 0, "entry"))
    /\ last' = Step
    /\ UNCHANGED <<typ, root, bufs, arrs, ret, phase, nsets>>

\* lines 124-127, 148-151: bitmap_init(next, types[k], 1, ctx)
InitLoopCall ==
    /\ Running("init", "loop")
    /\ Top.i < Top.nitems
    /\ Top.k < Top.t.shape
    /\ LET next == <<Node(Top.b).next,
                     ChildIndex(Top.i, Top.t.shape, Top.k)>>
       IN stack' = Call("child", Frame("init", next,
                                       Top.t.types[Top.k + 1], 1, "entry"))
    /\ last' = Step
    /\ UNCHANGED <<typ, root, bufs, arrs, ret, ctx, phase, nsets>>

\* lines 127, 125: the child was built, k++
InitChildOk ==
    /\ Running("init", "child")
    /\ ret >= 0
    /\ stack' = [stack EXCEPT ![Len(stack)].pc = "loop",
                              ![Len(stack)].k = @ + 1]
    /\ last' = Step
    /\ UNCHANGED <<typ, root, bufs, arrs, ret, ctx, phase, nsets>>

\* lines 127-129, 151-153: the child failed, the node is cleared
InitChildFail ==
    /\ Running("init", "child")
    /\ ret < 0
    /\ stack' = Call("fail", Frame("clear", Top.b, NoType, 0, "entry"))
    /\ last' = Step
    /\ UNCHANGED <<typ, root, bufs, arrs, ret, ctx, phase, nsets>>

\* lines 120, 129, 144, 153: return -1 after xnd_bitmap_clear(b)
InitFailReturn ==
    /\ Running("init", "fail")
    /\ InitReturn(-1)
    /\ UNCHANGED <<typ, root, bufs, arrs, ctx, nsets>>

\* lines 124-125, 148-149: the inner loop ends, i++
InitLoopNextItem ==
    /\ Running("init", "loop")
    /\ Top.i < Top.nitems
    /\ Top.k >= Top.t.shape
    /\ stack' = [stack EXCEPT ![Len(stack)].i = @ + 1,
                              ![Len(stack)].k = 0]
    /\ last' = Step
    /\ UNCHANGED <<typ, root, bufs, arrs, ret, ctx, phase, nsets>>

\* lines 134, 158: return 0
InitLoopDone ==
    /\ Running("init", "loop")
    /\ Top.i >= Top.nitems
    /\ InitReturn(0)
    /\ UNCHANGED <<typ, root, bufs, arrs, ctx, nsets>>

----------------------------------------------------------------------------
(* xnd_bitmap_clear, lines 172-188 *)

\* variant: the last child is not visited
ClearCountShort(n) == n.size - 1

\* line 181: the children the loop visits
ClearCount(n) == n.size

\* variant: b->next keeps the freed pointer
ClearedNextKept(n) == n.next

\* line 186: the value left in b->next
ClearedNext(n) == NULL

\* lines 177-180: data is freed; no child array, the call returns
ClearLeaf ==
    /\ Running("clear", "entry")
    /\ Node(Top.b).next = NULL
    /\ bufs' = FreeBuf(bufs, Node(Top.b).data)
    /\ WriteNode(Top.b, [Node(Top.b) EXCEPT !.data = NULL])
    /\ ClearReturn
    /\ UNCHANGED <<typ, ret, ctx, phase, nsets>>

\* lines 177-181: data is freed; the loop over the child array starts
ClearEnter ==
    /\ Running("clear", "entry")
    /\ Node(Top.b).next # NULL
    /\ bufs' = FreeBuf(bufs, Node(Top.b).data)
    /\ WriteNode(Top.b, [Node(Top.b) EXCEPT !.data = NULL])
    /\ stack' = Goto("loop")
    /\ last' = Step
    /\ UNCHANGED <<typ, ret, ctx, phase, nsets>>

\* lines 181-183: xnd_bitmap_clear(b->next + i), i++
ClearLoopCall ==
    /\ Running("clear", "loop")
    /\ Top.i < ClearCount(Node(Top.b))
    /\ stack' = Append([stack EXCEPT ![Len(stack)].i = @ + 1],
                       Frame("clear", <<Node(Top.b).next, Top.i + 1>>,
                             NoType, 0, "entry"))
    /\ last' = Step
    /\ UNCHANGED <<typ, root, bufs, arrs, ret, ctx, phase, nsets>>

\* lines 185-186: the child array is freed, next = NULL
ClearLoopDone ==
    /\ Running("clear", "loop")
    /\ Top.i >= ClearCount(Node(Top.b))
    /\ LET node == [Node(Top.b) EXCEPT !.next = ClearedNext(Node(Top.b))]
           freed == FreeArr(arrs, Node(Top.b).next)
       IN /\ root' = IF Top.b[1] = 0 THEN node ELSE root
          /\ arrs' = IF Top.b[1] = 0 THEN freed
                     ELSE [freed EXCEPT ![Top.b[1]].nodes[Top.b[2]] = node]
    /\ ClearReturn
    /\ UNCHANGED <<typ, bufs, ret, ctx, phase, nsets>>

----------------------------------------------------------------------------
(* Validity accessors, lines 190-232.  A position x holds the optional     *)
(* flag of its type, its index and a copy of its bitmap node.              *)

Pow2(e) == 2 ^ e

\* b & m # 0 for a one-bit mask m
TestBit(byte, m) == (byte \div m) % 2

\* variant: = instead of |=
SetBitAssign(byte, n) == Pow2(n % 8)

\* line 199: data[n / 8] |= (1 << (n % 8))
SetBit(byte, n) ==
    IF TestBit(byte, Pow2(n % 8)) = 1 THEN byte ELSE byte + Pow2(n % 8)

\* line 211: data[n / 8] & (1 << (n % 8)); -1 stands for a read through NULL
LoadBit(h, x) ==
    IF x.data = NULL THEN -1
    ELSE TestBit(h[x.data].bytes[(x.index \div 8) + 1], Pow2(x.index % 8))
           * Pow2(x.index % 8)

\* lines 202-212
xnd_is_valid_opt(h, x) == LoadBit(h, x)

\* lines 214-222
xnd_is_valid(h, x) ==
    IF ~x.opt THEN 1 ELSE xnd_is_valid_opt(h, x)

\* variant: the non-optional shortcut is missing
xnd_is_na_unguarded(h, x) ==
    IF xnd_is_valid_opt(h, x) = 0 THEN 1 ELSE 0

\* lines 224-232
xnd_is_na(h, x) ==
    IF ~x.opt THEN 0
    ELSE IF xnd_is_valid_opt(h, x) = 0 THEN 1 ELSE 0

\* the nodes of the live arrays and the root
LiveAddrs ==
    {RootAddr} \cup
    UNION {{<<a, i>> : i \in 1..Len(arrs[a].nodes)} :
             a \in {c \in 1..Len(arrs) : arrs[c].freed = 0}}

\* lines 190-200
xnd_set_valid ==
    /\ stack = <<>>
    /\ phase = "built"
    /\ nsets < MaxSets
    /\ \E ad \in LiveAddrs :
         /\ Node(ad).data # NULL
         /\ \E n \in 0..(bufs[Node(ad).data].n - 1) :
              /\ bufs' = [bufs EXCEPT ![Node(ad).data].bytes[(n \div 8) + 1]
                                         = SetBit(@, n)]
              /\ last' = [Step EXCEPT !.op = "set_valid", !.b = ad,
                                      !.idx = n]
    /\ nsets' = nsets + 1
    /\ UNCHANGED <<typ, root, arrs, stack, ret, ctx, phase>>

----------------------------------------------------------------------------
(* Entry points *)

\* lines 166-170
xnd_bitmap_init ==
    /\ stack = <<>>
    /\ phase = "new"
    /\ stack' = <<Frame("init", RootAddr, typ, 1, "entry")>>
    /\ ctx' = "Success"
    /\ last' = Step
    /\ UNCHANGED <<typ, root, bufs, arrs, ret, phase, nsets>>

\* lines 172-174, called by the container at teardown
xnd_bitmap_clear ==
    /\ stack = <<>>
    /\ stack' = <<Frame("clear", RootAddr, NoType, 0, "entry")>>
    /\ phase' = "cleared"
    /\ last' = Step
    /\ UNCHANGED <<typ, root, bufs, arrs, ret, ctx, nsets>>

Init ==
    /\ typ \in Types
    /\ root = EmptyNode
    /\ bufs = <<>>
    /\ arrs = <<>>
    /\ stack = <<>>
    /\ ret = 0
    /\ ctx = "Success"
    /\ phase = "new"
    /\ nsets = 0
    /\ last = Step

Next ==
    \/ xnd_bitmap_init
    \/ InitLeafAlloc
    \/ InitLeafOom
    \/ InitNoLeaf
    \/ InitSkip
    \/ InitFixedDim
    \/ InitVarDim
    \/ InitTailReturn
    \/ InitDefault
    \/ InitArrayAlloc
    \/ InitArrayOom
    \/ InitLoopCall
    \/ InitChildOk
    \/ InitChildFail
    \/ InitFailReturn
    \/ InitLoopNextItem
    \/ InitLoopDone
    \/ xnd_bitmap_clear
    \/ ClearLeaf
    \/ ClearEnter
    \/ ClearLoopCall
    \/ ClearLoopDone
    \/ xnd_set_valid

Spec == Init /\ [][Next]_vars

----------------------------------------------------------------------------
(* The tree a node holds, and the tree bitmap_init builds *)

NoData == -1

\* the tree below addr: byte length of the buffer (NoData when absent),
\* the child count, whether a child array is present, and the children
RECURSIVE TreeAt(_)
TreeAt(addr) ==
    LET n == Node(addr)
    IN [data |-> IF n.data = NULL THEN NoData ELSE Len(bufs[n.data].bytes),
        size |-> n.size,
        arr |-> n.next # NULL,
        kids |-> IF n.next = NULL THEN <<>>
                 ELSE [c \in 1..Len(arrs[n.next].nodes) |->
                          TreeAt(<<n.next, c>>)]]

\* bitmap_init(b, t, nitems) on an empty node when every allocation
\* succeeds, as one recursive function
RECURSIVE Built(_, _)
Built(t, nitems) ==
    LET data == IF IsLeafType(t) THEN bitmap_size(nitems) ELSE NoData
        plain == [data |-> data, size |-> 0, arr |-> FALSE, kids |-> <<>>]
        n == nitems * t.shape
    IN IF SkipSubtree(t) THEN plain
       ELSE IF t.tag = "FixedDim"
         THEN Built(t.types[1], FixedDimItems(nitems, t.shape))
       ELSE IF t.tag = "VarDim"
         THEN Built(VarDimElem(t), t.offsets[Len(t.offsets)])
       ELSE IF IsProduct(t)
         THEN [data |-> data, size |-> n, arr |-> TRUE,
               kids |-> [c \in 1..n |->
                           Built(t.types[((c - 1) % t.shape) + 1], 1)]]
       ELSE plain

\* a call of bitmap_init has just returned
Returned == last.op = "init_ret"

\* xnd_bitmap_init has just returned
TopReturned == Returned /\ last.depth = 0

\* a call of xnd_bitmap_clear made by the container has just returned
TopCleared == last.op = "clear_ret" /\ last.depth = 0

AllFreedOnce ==
    /\ \A p \in 1..Len(bufs) : bufs[p].freed = 1
    /\ \A p \in 1..Len(arrs) : arrs[p].freed = 1

NoDoubleFree ==
    /\ \A p \in 1..Len(bufs) : bufs[p].freed <= 1
    /\ \A p \in 1..Len(arrs) : arrs[p].freed <= 1

\* the step machine and the recursive function agree on every success
MachineMatchesBuilt ==
    (Returned /\ last.ret = 0) =>
        TreeAt(last.b) = Built(last.t, last.nitems)

\* the entry assertions of lines 82-85 hold in every call
AssertsHold == Running("init", "entry") => EntryAsserts(Top.b)

----------------------------------------------------------------------------
(* Claims *)

\* C1: whichever allocation fails, xnd_bitmap_init returns -1 with the
\* memory error set, and every buffer and child array allocated by the
\* call has then been freed exactly once; nothing is ever freed twice.
C1_RollbackFreesAll ==
    /\ NoDoubleFree
    /\ TopReturned =>
         /\ (last.ret = -1) <=> (ctx = "MemoryError")
         /\ last.ret \in {0, -1}
         /\ last.ret = -1 => AllFreedOnce

\* C1 witness: a failure below a nested product, after buffers and
\* arrays had been allocated
C1_Witness ==
    /\ TopReturned
    /\ last.ret = -1
    /\ Len(arrs) >= 2
    /\ Len(bufs) >= 2

HasBoth(n) == n.data # NULL /\ n.next # NULL

\* C2 as stated: no node owns both a bit buffer and a child array.
C2_NeverLeafAndBranch ==
    \A ad \in LiveAddrs : ~HasBoth(Node(ad))

RECURSIVE HasOptionalProduct(_)
HasOptionalProduct(t) ==
    \/ IsProduct(t) /\ t.opt /\ t.sub
    \/ \E c \in 1..Len(t.types) : HasOptionalProduct(t.types[c])

\* C2 amended: a node owns both a buffer and a child array exactly when
\* the type built on it, dimensions stripped, is a Tuple or Record that is
\* itself optional and has the subtree flag; no other node ever owns both.
C2_BothOnlyOptionalProduct ==
    /\ (Returned /\ last.ret = 0) =>
         LET d == ndt_dtype(last.t)
         IN HasBoth(Node(last.b)) <=> (IsProduct(d) /\ d.opt /\ d.sub)
    /\ (\E ad \in LiveAddrs : HasBoth(Node(ad))) => HasOptionalProduct(typ)

\* C2 witness: an optional product was built and its node owns both
C2_Witness ==
    /\ Returned
    /\ last.ret = 0
    /\ IsProduct(last.t)
    /\ HasBoth(Node(last.b))

\* C3 as stated: a type whose subtree flag is false allocates nothing and
\* leaves the node empty.
C3_NoSubtreeFlagNoAllocation ==
    (Returned /\ ~last.t.sub) =>
        /\ last.nalloc = 0
        /\ Node(last.b) = EmptyNode

\* C3 amended: with the subtree flag false, a type that is not an optional
\* type of dimension 0 allocates nothing, succeeds and leaves the node
\* empty; an optional type of dimension 0 allocates exactly its own bit
\* buffer of bitmap_size(nitems) zero bytes and no child array, or fails
\* with nothing allocated.
C3_NoSubtreeFlagAtMostLeaf ==
    (Returned /\ ~last.t.sub) =>
        LET n == Node(last.b)
        IN /\ n.next = NULL
           /\ n.size = 0
           /\ IF ~(last.t.ndim = 0 /\ last.t.opt)
              THEN /\ last.ret = 0
                   /\ last.nalloc = 0
                   /\ n = EmptyNode
              ELSE \/ /\ last.ret = -1
                      /\ last.nalloc = 0
                      /\ n = EmptyNode
                   \/ /\ last.ret = 0
                      /\ last.nalloc = 1
                      /\ n.data # NULL
                      /\ bufs[n.data].bytes
                           = [j \in 1..((last.nitems + 7) \div 8) |-> 0]

\* C3 witness: an optional scalar without the subtree flag, under a
\* dimension, got its buffer
C3_Witness ==
    /\ Returned
    /\ ~last.t.sub
    /\ last.t.opt
    /\ last.nitems > 1
    /\ last.ret = 0
    /\ last.nalloc = 1

OtherProduct(t) ==
    [t EXCEPT !.tag = IF t.tag = "Tuple" THEN "Record" ELSE "Tuple"]

\* what C4 says of a product node built with nitems repetitions
ProductLayout(b, t, nitems) ==
    LET n == Node(b)
        k == Len(t.types)
    IN /\ n.next # NULL
       /\ n.size = nitems * k
       /\ Len(arrs[n.next].nodes) = nitems * k
       /\ \A i \in 0..(nitems - 1) : \A j \in 0..(k - 1) :
            TreeAt(<<n.next, i * k + j + 1>>) = Built(t.types[j + 1], 1)
       /\ TreeAt(b) = Built(OtherProduct(t), nitems)

\* C4 as stated: every Tuple or Record built with nitems repetitions has
\* nitems * k children, child i*k + j shaped as field j built alone.
C4_EveryProductHasChildren ==
    (Returned /\ last.ret = 0 /\ IsProduct(last.t)) =>
        ProductLayout(last.b, last.t, last.nitems)

\* C4 amended: a Tuple or Record whose subtree flag is set has nitems * k
\* children, child i*k + j shaped as field j built alone with nitems 1,
\* and Tuple and Record agree; one whose subtree flag is not set has no
\* child array.
C4_FlaggedProductHasChildren ==
    (Returned /\ last.ret = 0 /\ IsProduct(last.t)) =>
        IF last.t.sub
        THEN ProductLayout(last.b, last.t, last.nitems)
        ELSE /\ Node(last.b).next = NULL
             /\ Node(last.b).size = 0
             /\ TreeAt(last.b) = Built(OtherProduct(last.t), last.nitems)

\* C4 witness: two fields, one of them optional, repeated under a dimension
C4_Witness ==
    /\ Returned
    /\ last.ret = 0
    /\ IsProduct(last.t)
    /\ last.nitems >= 2
    /\ Len(last.t.types) = 2
    /\ last.t.types[1] # last.t.types[2]
    /\ Node(last.b).size = 2 * last.nitems

\* C5: building VarDim(elementType, offsets) gives what building its
\* immediate element type on the same node with nitems = offsets[last]
\* gives, also when the element type is itself a dimension.
C5_VarDimBuildsElementType ==
    (Returned /\ last.ret = 0 /\ last.t.tag = "VarDim") =>
        TreeAt(last.b)
          = Built(last.t.types[1], last.t.offsets[Len(last.t.offsets)])

\* the position at index i of the node at addr, of an optional type or not
Pos(addr, i, opt) == [opt |-> opt, index |-> i, data |-> Node(addr).data]

\* the bits of the buffer p, padding included
BitRange(p) == 0..(8 * Len(bufs[p].bytes) - 1)

\* C6: after xnd_set_valid at index i, xnd_is_valid at i is true and every
\* other index of the same buffer reads as before; no buffer loses a bit
\* and no other buffer changes.
C6_SetValidSetsOnlyItsBit ==
    [][last'.op = "set_valid" =>
         LET ad == last'.b
             i == last'.idx
             p == Node(ad).data
         IN /\ i < bufs[p].n
            /\ xnd_is_valid(bufs', Pos(ad, i, TRUE)) # 0
            /\ xnd_is_na(bufs', Pos(ad, i, TRUE)) = 0
            /\ \A j \in BitRange(p) \ {i} :
                 xnd_is_valid(bufs', Pos(ad, j, TRUE))
                   = xnd_is_valid(bufs, Pos(ad, j, TRUE))
            /\ \A q \in (1..Len(bufs)) \ {p} : bufs'[q] = bufs[q]
            /\ Len(bufs') = Len(bufs)
            /\ bufs'[p].bytes[(i \div 8) + 1] \in 0..255]_vars

\* C6 witness: a second bit was set in a byte that already held one
C6_Witness ==
    /\ last.op = "set_valid"
    /\ nsets = 2
    /\ LET byte == bufs[Node(last.b).data].bytes[(last.idx \div 8) + 1]
       IN byte \notin {Pow2(e) : e \in 0..7}

\* the positions the container can resolve on a built tree: every index of
\* every buffer, of an optional type or not, and nodes without a buffer
\* for types that are not optional
Positions ==
    UNION {{Pos(ad, i, opt) :
              i \in 0..(bufs[Node(ad).data].n - 1), opt \in BOOLEAN} :
             ad \in {a \in LiveAddrs : Node(a).data # NULL}}
      \cup {Pos(ad, i, FALSE) : ad \in LiveAddrs, i \in 0..MaxShape}

\* C7: for a position of an optional type xnd_is_na is true exactly when
\* xnd_is_valid is false; for a position of a type that is not optional
\* xnd_is_valid is 1 and xnd_is_na is 0 whatever the bits are, also where
\* the node has no buffer to read.
C7_NaIsNotValid ==
    (stack = <<>> /\ phase = "built") =>
        \A x \in Positions :
            IF x.opt
            THEN /\ xnd_is_valid(bufs, x) >= 0
                 /\ (xnd_is_na(bufs, x) # 0) <=> (xnd_is_valid(bufs, x) = 0)
                 /\ xnd_is_na(bufs, x) \in {0, 1}
            ELSE /\ xnd_is_valid(bufs, x) = 1
                 /\ xnd_is_na(bufs, x) = 0

\* C7 witness: a tree with a set bit, a clear bit and a node with no buffer
C7_Witness ==
    /\ stack = <<>>
    /\ phase = "built"
    /\ \E x \in Positions : x.opt /\ xnd_is_valid(bufs, x) > 1
    /\ \E x \in Positions : x.opt /\ xnd_is_na(bufs, x) = 1
    /\ \E x \in Positions : ~x.opt /\ x.data = NULL
    /\ \E x \in Positions :
         ~x.opt /\ x.data # NULL /\ xnd_is_valid_opt(bufs, x) = 0

\* a call of xnd_bitmap_clear by the container on a root that owns nothing
ClearingEmptyRoot ==
    /\ stack # <<>>
    /\ stack[1].fn = "clear"
    /\ root.data = NULL
    /\ root.next = NULL

\* C8: when xnd_bitmap_clear returns to the container every buffer and
\* every child array has been freed exactly once and the root owns
\* nothing; a further call frees nothing and changes nothing.
C8_ClearFreesOnceAndIsIdempotent ==
    /\ [](TopCleared =>
            /\ AllFreedOnce
            /\ root.data = NULL
            /\ root.next = NULL)
    /\ [][ClearingEmptyRoot =>
            /\ root' = root
            /\ bufs' = bufs
            /\ arrs' = arrs
            /\ stack' = <<>>]_vars

\* C8 witness: a built tree with nested arrays and buffers was cleared
C8_Witness ==
    /\ TopCleared
    /\ ctx = "Success"
    /\ Len(arrs) >= 2
    /\ Len(bufs) >= 2

RECURSIVE IsFixedChain(_)
IsFixedChain(t) ==
    /\ t.tag = "FixedDim"
    /\ \/ t.types[1].tag = "Int64" /\ t.types[1].opt
       \/ IsFixedChain(t.types[1])

RECURSIVE ShapeProduct(_)
ShapeProduct(t) ==
    IF t.tag = "FixedDim" THEN t.shape * ShapeProduct(t.types[1]) ELSE 1

\* the least m with 8 * m >= n
CeilDiv8(n) == CHOOSE m \in 0..n : 8 * m >= n /\ 8 * (m - 1) < n

\* the container's type in the FixedDim(3, optional scalar) scenario
IsScenario9 ==
    /\ typ.tag = "FixedDim"
    /\ typ.shape = 3
    /\ typ.types[1].tag = "Int64"
    /\ typ.types[1].opt

\* C9: a chain of FixedDim over an optional scalar builds no child array
\* and exactly one buffer on the same node, of ceil(nitems * shapes / 8)
\* zero bytes, so every element reads NA; for FixedDim(3, optional scalar)
\* the buffer covers 3 bits and after xnd_set_valid at 1 only index 1 is
\* valid.
C9_FixedDimChainOneLeaf ==
    /\ (Returned /\ last.ret = 0 /\ IsFixedChain(last.t)) =>
         LET n == Node(last.b)
             bits == last.nitems * ShapeProduct(last.t)
         IN /\ n.next = NULL
            /\ n.size = 0
            /\ n.data # NULL
            /\ last.nalloc = 1
            /\ bufs[n.data].n = bits
            /\ Len(bufs[n.data].bytes) = CeilDiv8(bits)
            /\ \A j \in 1..Len(bufs[n.data].bytes) : bufs[n.data].bytes[j] = 0
            /\ \A i \in 0..(bits - 1) :
                 /\ xnd_is_na(bufs, Pos(last.b, i, TRUE)) = 1
                 /\ xnd_is_valid(bufs, Pos(last.b, i, TRUE)) = 0
    /\ (IsScenario9 /\ TopReturned /\ last.ret = 0) =>
         /\ bufs[root.data].n = 3
         /\ Len(bufs[root.data].bytes) = 1
    /\ (IsScenario9 /\ last.op = "set_valid" /\ nsets = 1 /\ last.idx = 1) =>
         /\ xnd_is_valid(bufs, Pos(RootAddr, 1, TRUE)) # 0
         /\ xnd_is_valid(bufs, Pos(RootAddr, 0, TRUE)) = 0
         /\ xnd_is_valid(bufs, Pos(RootAddr, 2, TRUE)) = 0

\* C9 witness: a chain of two dimensions whose buffer needs two bytes
C9_Witness ==
    /\ Returned
    /\ last.ret = 0
    /\ IsFixedChain(last.t)
    /\ last.t.ndim = 2
    /\ Len(bufs[Node(last.b).data].bytes) = 2

\* C10: after a failed xnd_bitmap_init and after any xnd_bitmap_clear the
\* root is empty again: no buffer, no child array, child count 0.
C10_EmptyAfterRollbackOrClear ==
    ((TopReturned /\ last.ret = -1) \/ TopCleared) => root = EmptyNode

====
